---- MODULE Spec2Model ----
(***************************************************************************)
(* Model of the family-consumables backend (src/server.js, with the        *)
(* earlier notification servers of src/unnamed/part_000 and part_001).     *)
(*                                                                         *)
(* The store is the MongoDB collection behind the mongoose model Item.     *)
(* Every route handler is one action, except PUT /items/:id/quantity,      *)
(* which suspends between Item.findById and item.save and is therefore two *)
(* actions per request (the read-and-compute step and the save step).      *)
(*                                                                         *)
(* Numbers that JavaScript keeps as doubles (consumptionRate,              *)
(* estimatedDaysLeft, elapsed days) are exact rationals <<num, den>> in    *)
(* lowest terms; null is the empty tuple.  Dates are milliseconds.         *)
(***************************************************************************)
EXTENDS Integers, Sequences, FiniteSets, TLC

(***************************************************************************)
(* Bounds of the model.                                                    *)
(***************************************************************************)
MaxItems == 2        \* documents ever created
MaxOps == 2          \* quantity changes accepted in all

(***************************************************************************)
(* Program constants.                                                      *)
(***************************************************************************)
msPerDay == 86400000
EtaHorizon == 3      \* sendLineNotification: estimatedDaysLeft <= 3

\* The instants the model tells apart: a start, half a day and two days later.
Times == {0, msPerDay \div 2, 2 * msPerDay}

Reqs == {1, 2}       \* PUT /items/:id/quantity requests that may be in flight
Ids == 1..MaxItems

(***************************************************************************)
(* Rationals.                                                              *)
(***************************************************************************)
Null == <<>>
IsNull(x) == x = <<>>

Abs(n) == IF n < 0 THEN -n ELSE n

Last(h) == h[Len(h)]

RECURSIVE GCD(_, _)
GCD(a, b) == IF b = 0 THEN a ELSE GCD(b, a % b)

\* n / d in lowest terms with a positive denominator; a zero denominator is
\* JavaScript's Infinity, kept as <<1, 0>>.
Rat(n, d) ==
  IF d = 0 THEN <<1, 0>>
  ELSE LET g == GCD(Abs(n), Abs(d))
           s == IF d < 0 THEN -1 ELSE 1
       IN  <<(s * n) \div g, (s * d) \div g>>

RatInt(n) == <<n, 1>>
RatAdd(a, b) == Rat(a[1] * b[2] + b[1] * a[2], a[2] * b[2])
RatMul(a, b) == Rat(a[1] * b[1], a[2] * b[2])
RatDiv(a, b) == Rat(a[1] * b[2], a[2] * b[1])
RatLess(a, b) == a[1] * b[2] < b[1] * a[2]
RatLeq(a, b) == a[1] * b[2] <= b[1] * a[2]
RatMax(a, b) == IF RatLess(a, b) THEN b ELSE a
RatHalf(a) == RatMul(a, <<1, 2>>)

(***************************************************************************)
(* Strings are sequences of characters, so that trim is computed.          *)
(***************************************************************************)
RECURSIVE TrimLeft(_)
TrimLeft(s) ==
  IF s # <<>> /\ Head(s) = " " THEN TrimLeft(Tail(s)) ELSE s

RECURSIVE TrimRight(_)
TrimRight(s) ==
  IF s # <<>> /\ s[Len(s)] = " " THEN TrimRight(SubSeq(s, 1, Len(s) - 1)) ELSE s

\* String.prototype.trim
Trim(s) == TrimRight(TrimLeft(s))

Milk == <<"m", "i", "l", "k">>
Soap == <<"s", "o", "a", "p">>
Food == <<"f", "o", "o", "d">>
Daily == <<"d", "a", "i", "l", "y">>
Blank == <<" ">>
Empty == <<>>
Missing == <<"undefined">>      \* a body field that is absent

(***************************************************************************)
(* Request bodies.  A body field holding a number is [t, v]: a number, a   *)
(* string that is no number ("abc"), or absent.                            *)
(***************************************************************************)
Num(n) == [t |-> "number", v |-> n]
NotNum == [t |-> "string", v |-> 0]
Absent == [t |-> "undefined", v |-> 0]

\* x == null
IsNullish(x) == x.t = "undefined"
\* Number.isNaN(Number(x))
IsNaN(x) == x.t # "number"
\* Number(x), for an x that converts
NumberOf(x) == x.v

CategoryInputs == {Food, Daily, Missing}
\* Bodies of POST /items: the complete ones, and one for each way a field
\* can be wrong.
PostBodies ==
  {<<Milk, q, c>> : q \in {Num(-1), Num(4)}, c \in {Food, Daily}}
    \cup {<<Missing, Num(4), Food>>, <<Empty, Num(4), Food>>, <<Blank, Num(4), Food>>,
          <<Milk, Absent, Food>>, <<Milk, NotNum, Food>>, <<Milk, Num(4), Missing>>}
ChangeInputs == {Num(-2), Num(-1), Num(0), Num(5), NotNum, Absent}
TimestampInputs == {Num(t) : t \in Times} \cup {Absent}

(***************************************************************************)
(* itemSchema: one document of the collection.                             *)
(***************************************************************************)
NewItem(name, category, quantity, now) ==
  [name |-> name,
   category |-> category,
   quantity |-> quantity,
   lastUpdated |-> now,
   consumptionRate |-> RatInt(0),
   estimatedDaysLeft |-> Null,
   history |-> <<>>]

\* The schema's validators, run by Item.create and item.save: name and
\* category required (an empty string fails), quantity min 0.
Validates(item) ==
  /\ item.name # Empty
  /\ item.category # Empty
  /\ item.quantity >= 0

(***************************************************************************)
(* Helpers of server.js.                                                   *)
(***************************************************************************)
calcDaysBetween(prevDate, currentDate) ==
  RatMax(Rat(currentDate - prevDate, msPerDay), RatInt(0))

\* const prev = item.history?.length ? last timestamp : item.lastUpdated || now
\* (lastUpdated of a stored document is always a Date, which is truthy).
PrevOf(item, now) ==
  IF Len(item.history) > 0
  THEN item.history[Len(item.history)].timestamp
  ELSE item.lastUpdated

\* Mutation: the floor to one day is missing.
DaysElapsedOf_NoFloor(item, now) == calcDaysBetween(PrevOf(item, now), now)

\* let daysElapsed = calcDaysBetween(prev, now); if (daysElapsed < 1) daysElapsed = 1
DaysElapsedOf(item, now) ==
  LET daysElapsed == calcDaysBetween(PrevOf(item, now), now)
  IN  IF RatLess(daysElapsed, RatInt(1)) THEN RatInt(1) ELSE daysElapsed

\* Mutation: the first observation is blended with the rate 0 too.
SmoothedRate_AlwaysBlend(previousRate, rate) ==
  RatAdd(RatHalf(previousRate), RatHalf(rate))

\* const smoothedRate = item.consumptionRate > 0 ? 0.5 * old + 0.5 * rate : rate
SmoothedRate(previousRate, rate) ==
  IF RatLess(RatInt(0), previousRate)
  THEN RatAdd(RatHalf(previousRate), RatHalf(rate))
  ELSE rate

\* const eta = smoothedRate > 0 ? item.quantity / smoothedRate : null
EtaOf(quantity, rate) ==
  IF RatLess(RatInt(0), rate) THEN RatDiv(RatInt(quantity), rate) ELSE Null

computeRateAndEtaAfterDecrease(item, change, now) ==
  LET absConsumed == Abs(change)
      rate == RatDiv(RatInt(absConsumed), DaysElapsedOf(item, now))
      smoothedRate == SmoothedRate(item.consumptionRate, rate)
  IN  [rate |-> smoothedRate, eta |-> EtaOf(item.quantity, smoothedRate)]

(***************************************************************************)
(* State.                                                                  *)
(***************************************************************************)
VARIABLES
  store,     \* the collection: id -> document, for the documents that exist
  nextId,    \* the next _id the store hands out (ids are never reused)
  clock,     \* the server's time, what new Date() returns
  req,       \* the PUT /items/:id/quantity requests: position and locals
  lineEnv,   \* whether LINE_CHANNEL_ACCESS_TOKEN and LINE_USER_ID are both set
  res        \* what the last handler (or timer callback) that finished did

vars == <<store, nextId, clock, req, lineEnv, res>>

\* A request slot with no request in it; one in flight is
\* [pc, id, change, now, read, item], the handler's locals.
IdleReq == [pc |-> "idle"]

\* What a handler did: the request body it was given, the HTTP status it
\* answered (0: a timer callback, which answers nobody), the items its message
\* names (id -> line), the number of push calls it made to the LINE API and
\* whether the push got through.
Outcome(op, id, request, status, lines, pushes, pushed) ==
  [op |-> op, id |-> id, request |-> request, status |-> status,
   lines |-> lines, pushes |-> pushes, pushed |-> pushed]

Response(op, id, request, status) == Outcome(op, id, request, status, <<>>, 0, FALSE)

NoResponse == Response("none", 0, <<>>, 0)

Init ==
  /\ store = <<>>
  /\ nextId = 1
  /\ clock = 0
  /\ req = [r \in Reqs |-> IdleReq]
  /\ lineEnv \in BOOLEAN
  /\ res = NoResponse

TotalOps ==
  LET RECURSIVE Sum(_)
      Sum(S) == IF S = {} THEN 0
                ELSE LET i == CHOOSE x \in S : TRUE
                     IN  Len(store[i].history) + Sum(S \ {i})
  IN  Sum(DOMAIN store)

NoneInFlight == \A r \in Reqs : req[r].pc # "save"

\* The last answer has reached its client: the next handler may answer.
Delivered == res.op = "none"

(***************************************************************************)
(* Time passes; the answer on the wire reaches its client.                  *)
(***************************************************************************)
Deliver ==
  /\ ~Delivered
  /\ res' = NoResponse
  /\ UNCHANGED <<store, nextId, clock, req, lineEnv>>

Tick ==
  /\ \E t \in Times : t > clock
  /\ clock' = CHOOSE t \in Times : t > clock /\ \A u \in Times : u > clock => t <= u
  /\ UNCHANGED <<store, nextId, req, lineEnv, res>>

(***************************************************************************)
(* POST /items                                                             *)
(***************************************************************************)
\* Mutation: a missing quantity is taken for 0 instead of being refused.
PostItems_QuantityOptional(name, quantity, category) ==
  IF name = Missing \/ name = Empty \/ category = Missing
  THEN /\ res' = Response("POST /items", 0, <<name, quantity, category>>, 400)
       /\ UNCHANGED <<store, nextId, clock, req, lineEnv>>
  ELSE LET item == NewItem(Trim(name), Trim(category),
                           IF NumberOf(quantity) > 0 THEN NumberOf(quantity) ELSE 0,
                           clock)
       IN  IF quantity.t = "string" \/ ~Validates(item)
           THEN /\ res' = Response("POST /items", 0, <<name, quantity, category>>, 500)
                /\ UNCHANGED <<store, nextId, clock, req, lineEnv>>
           ELSE /\ nextId <= MaxItems
                /\ store' = (nextId :> item) @@ store
                /\ nextId' = nextId + 1
                /\ res' = Response("POST /items", nextId, <<name, quantity, category>>, 201)
                /\ UNCHANGED <<clock, req, lineEnv>>

\* Lines 164-189.  Item.create runs the schema's validators and casts; when it
\* rejects, the catch answers 500.
PostItems(name, quantity, category) ==
  IF name = Missing \/ name = Empty \/ category = Missing \/ IsNullish(quantity)
  THEN /\ res' = Response("POST /items", 0, <<name, quantity, category>>, 400)
       /\ UNCHANGED <<store, nextId, clock, req, lineEnv>>
  ELSE LET item == NewItem(Trim(name), Trim(category),
                           IF NumberOf(quantity) > 0 THEN NumberOf(quantity) ELSE 0,
                           clock)
       IN  IF IsNaN(quantity) \/ ~Validates(item)
           THEN \* Item.create rejects: the catch answers 500
                /\ res' = Response("POST /items", 0, <<name, quantity, category>>, 500)
                /\ UNCHANGED <<store, nextId, clock, req, lineEnv>>
           ELSE /\ nextId <= MaxItems
                /\ store' = (nextId :> item) @@ store
                /\ nextId' = nextId + 1
                /\ res' = Response("POST /items", nextId, <<name, quantity, category>>, 201)
                /\ UNCHANGED <<clock, req, lineEnv>>

(***************************************************************************)
(* PUT /items/:id                                                          *)
(***************************************************************************)
\* Mutation: lastUpdated is bumped only when a field is supplied.
PutItem_BumpOnChange(id, name, category) ==
  IF id \notin DOMAIN store
  THEN /\ res' = Response("PUT /items/:id", id, <<name, category>>, 404)
       /\ UNCHANGED <<store, nextId, clock, req, lineEnv>>
  ELSE /\ store' = [store EXCEPT
            ![id].name = IF name # Missing THEN Trim(name) ELSE @,
            ![id].category = IF category # Missing THEN Trim(category) ELSE @,
            ![id].lastUpdated = IF name # Missing \/ category # Missing THEN clock ELSE @]
       /\ res' = Response("PUT /items/:id", id, <<name, category>>, 200)
       /\ UNCHANGED <<nextId, clock, req, lineEnv>>

\* Lines 192-209: Item.findByIdAndUpdate of the supplied fields and lastUpdated.
PutItem(id, name, category) ==
  IF id \notin DOMAIN store
  THEN /\ res' = Response("PUT /items/:id", id, <<name, category>>, 404)
       /\ UNCHANGED <<store, nextId, clock, req, lineEnv>>
  ELSE /\ store' = [store EXCEPT
            ![id].name = IF name # Missing THEN Trim(name) ELSE @,
            ![id].category = IF category # Missing THEN Trim(category) ELSE @,
            ![id].lastUpdated = clock]
       /\ res' = Response("PUT /items/:id", id, <<name, category>>, 200)
       /\ UNCHANGED <<nextId, clock, req, lineEnv>>

(***************************************************************************)
(* DELETE /items/:id                                                       *)
(***************************************************************************)
DeleteItem(id) ==
  IF id \notin DOMAIN store
  THEN /\ res' = Response("DELETE /items/:id", id, <<>>, 404)
       /\ UNCHANGED <<store, nextId, clock, req, lineEnv>>
  ELSE /\ store' = [i \in DOMAIN store \ {id} |-> store[i]]
       /\ res' = Response("DELETE /items/:id", id, <<>>, 200)
       /\ UNCHANGED <<nextId, clock, req, lineEnv>>

(***************************************************************************)
(* PUT /items/:id/quantity                                                 *)
(***************************************************************************)
\* Mutation: the quantity is not clamped at 0.
NewQuantity_NoClamp(quantity, change) == quantity + change

\* Mutation: the quantity is clamped at 1.
NewQuantity_ClampAtOne(quantity, change) ==
  IF quantity + change > 1 THEN quantity + change ELSE 1

\* Line 242: Math.max(item.quantity + change, 0)
NewQuantity(quantity, change) ==
  IF quantity + change > 0 THEN quantity + change ELSE 0

\* Mutation: a change of 0 is taken for a decrease.
IsDecrease_OrZero(change) == change <= 0

\* Line 247: if (change < 0)
IsDecrease(change) == change < 0

\* Mutation: the ETA is recomputed without looking at the rate.
EtaAfterIncrease_NoRateCheck(quantity, consumptionRate) ==
  RatDiv(RatInt(quantity), consumptionRate)

\* Lines 253-257: the rate is kept, the ETA recomputed.
EtaAfterIncrease(quantity, consumptionRate) ==
  IF RatLess(RatInt(0), consumptionRate)
  THEN RatDiv(RatInt(quantity), consumptionRate)
  ELSE Null

\* Mutation: an increase leaves the ETA as it was.
ApplyChange_EtaKeptOnIncrease(read, change, now) ==
  LET item == [read EXCEPT !.quantity = NewQuantity(@, change),
                           !.lastUpdated = now,
                           !.history = Append(@, [change |-> change, timestamp |-> now])]
  IN  IF IsDecrease(change)
      THEN LET out == computeRateAndEtaAfterDecrease(item, change, now)
           IN  [item EXCEPT !.consumptionRate = out.rate,
                            !.estimatedDaysLeft = out.eta]
      ELSE item

\* Mutation: the estimator runs before lastUpdated is set and the entry
\* pushed, so that it sees the time of the previous update.
ApplyChange_EstimateBeforePush(read, change, now) ==
  LET before == [read EXCEPT !.quantity = NewQuantity(@, change)]
      item == [before EXCEPT !.lastUpdated = now,
                             !.history = Append(@, [change |-> change, timestamp |-> now])]
  IN  IF IsDecrease(change)
      THEN LET out == computeRateAndEtaAfterDecrease(before, change, now)
           IN  [item EXCEPT !.consumptionRate = out.rate,
                            !.estimatedDaysLeft = out.eta]
      ELSE [item EXCEPT !.estimatedDaysLeft =
                          EtaAfterIncrease(item.quantity, item.consumptionRate)]

\* Lines 242-258: the handler's changes to the document it read.
ApplyChange(read, change, now) ==
  LET item == [read EXCEPT !.quantity = NewQuantity(@, change),
                           !.lastUpdated = now,
                           !.history = Append(@, [change |-> change, timestamp |-> now])]
  IN  IF IsDecrease(change)
      THEN LET out == computeRateAndEtaAfterDecrease(item, change, now)
           IN  [item EXCEPT !.consumptionRate = out.rate,
                            !.estimatedDaysLeft = out.eta]
      ELSE [item EXCEPT !.estimatedDaysLeft =
                          EtaAfterIncrease(item.quantity, item.consumptionRate)]

\* A path of the document as item.save() leaves it: written when the handler
\* changed it, as it is in the collection otherwise.
Saved(current, read, item) == IF item # read THEN item ELSE current

\* The entries the handler pushed onto history.
Pushed(read, item) == SubSeq(item.history, Len(read.history) + 1, Len(item.history))

\* Mutation: save writes the whole document as the handler holds it.
SaveItem_Overwrite(current, read, item) == item

\* Mutation: save adds the change to the stored quantity ($inc).
SaveItem_Increment(current, read, item) ==
  [current EXCEPT
     !.quantity = IF @ + Last(item.history).change > 0
                  THEN @ + Last(item.history).change ELSE 0,
     !.lastUpdated = Saved(@, read.lastUpdated, item.lastUpdated),
     !.consumptionRate = Saved(@, read.consumptionRate, item.consumptionRate),
     !.estimatedDaysLeft = Saved(@, read.estimatedDaysLeft, item.estimatedDaysLeft),
     !.history = @ \o Pushed(read, item)]

\* Line 260, item.save(): mongoose writes the paths the handler changed ($set
\* of each scalar path whose value differs from the value read, $push of the
\* entries pushed onto history) to the document as it is in the collection
\* now.
SaveItem(current, read, item) ==
  [current EXCEPT
     !.quantity = Saved(@, read.quantity, item.quantity),
     !.lastUpdated = Saved(@, read.lastUpdated, item.lastUpdated),
     !.consumptionRate = Saved(@, read.consumptionRate, item.consumptionRate),
     !.estimatedDaysLeft = Saved(@, read.estimatedDaysLeft, item.estimatedDaysLeft),
     !.history = @ \o Pushed(read, item)]

InFlight == {r \in Reqs : req[r].pc = "save"}

\* Mutation: the check that Number(change) is a number is missing (as in the
\* handler of part_001).
QuantityStatus_NoNaNCheck(change, id) ==
  IF IsNullish(change) THEN 400
  ELSE IF id \notin DOMAIN store THEN 404
  ELSE 0

\* Lines 226-239: the status of the handler's early returns, 0 when it goes on.
QuantityStatus(change, id) ==
  IF IsNullish(change) \/ IsNaN(change) THEN 400
  ELSE IF id \notin DOMAIN store THEN 404
  ELSE 0

\* Lines 226-258: validation, Item.findById, and the changes to the document;
\* the handler then suspends on item.save().
PutQuantityRead(r, id, change, timestamp) ==
  /\ req[r].pc = "idle"
  /\ IF QuantityStatus(change, id) # 0
     THEN /\ res' = Response("PUT /items/:id/quantity", id, <<change, timestamp>>,
                              QuantityStatus(change, id))
          /\ UNCHANGED <<store, nextId, clock, req, lineEnv>>
     ELSE LET now == IF IsNullish(timestamp) THEN clock ELSE NumberOf(timestamp)
          IN  /\ TotalOps + Cardinality(InFlight) < MaxOps
              /\ req' = [req EXCEPT ![r] =
                   [pc |-> "save", id |-> id, change |-> NumberOf(change),
                    now |-> now, read |-> store[id],
                    item |-> ApplyChange(store[id], NumberOf(change), now)]]
              /\ UNCHANGED <<store, nextId, clock, lineEnv, res>>

\* Lines 260-265: item.save() and the answer.  Saving a document that was
\* deleted meanwhile throws, and the catch answers 500.
PutQuantitySave(r) ==
  /\ req[r].pc = "save"
  /\ req' = [req EXCEPT ![r] = IdleReq]
  /\ IF req[r].id \in DOMAIN store
     THEN /\ store' = [store EXCEPT ![req[r].id] = SaveItem(@, req[r].read, req[r].item)]
          /\ res' = Response("PUT /items/:id/quantity", req[r].id,
                           <<req[r].change, req[r].now>>, 200)
     ELSE /\ store' = store
          /\ res' = Response("PUT /items/:id/quantity", req[r].id,
                           <<req[r].change, req[r].now>>, 500)
  /\ UNCHANGED <<nextId, clock, lineEnv>>

(***************************************************************************)
(* GET /items                                                              *)
(***************************************************************************)
\* Item.find(filter): the ids of the documents found, in the order of the
\* collection (the order of insertion); no filter when category is falsy.
Found(items, category) ==
  {i \in DOMAIN items :
     category # Missing /\ category # Empty => items[i].category = category}

\* The answer of GET /items: the documents (by id) in the order sent.
Listing(op, category, ids) ==
  [items |-> ids] @@ Response(op, 0, <<category>>, 200)

\* items.sort((a, b) => a.quantity - b.quantity); Array.prototype.sort is
\* stable, so equal quantities keep the order found.
RECURSIVE SortByQuantity(_, _)
SortByQuantity(items, S) ==
  IF S = {} THEN <<>>
  ELSE LET first == CHOOSE i \in S : \A j \in S :
                      \/ items[i].quantity < items[j].quantity
                      \/ items[i].quantity = items[j].quantity /\ i <= j
       IN  <<first>> \o SortByQuantity(items, S \ {first})

\* withEta.sort((a, b) => a.estimatedDaysLeft - b.estimatedDaysLeft)
RECURSIVE SortByEta(_, _)
SortByEta(items, S) ==
  IF S = {} THEN <<>>
  ELSE LET first == CHOOSE i \in S : \A j \in S :
                      \/ RatLess(items[i].estimatedDaysLeft, items[j].estimatedDaysLeft)
                      \/ /\ ~RatLess(items[j].estimatedDaysLeft, items[i].estimatedDaysLeft)
                         /\ i <= j
       IN  <<first>> \o SortByEta(items, S \ {first})

\* The ids of S in the order found.
RECURSIVE InOrder(_)
InOrder(S) ==
  IF S = {} THEN <<>>
  ELSE LET first == CHOOSE i \in S : \A j \in S : i <= j
       IN  <<first>> \o InOrder(S \ {first})

\* Mutation: the sort is missing, the documents are sent in the order found.
GetItems_Unsorted(category) ==
  /\ res' = Listing("GET /items", category, InOrder(Found(store, category)))
  /\ UNCHANGED <<store, nextId, clock, req, lineEnv>>

\* server.js, lines 147-161: sorted by quantity, ascending.
GetItems(category) ==
  /\ res' = Listing("GET /items", category,
                    SortByQuantity(store, Found(store, category)))
  /\ UNCHANGED <<store, nextId, clock, req, lineEnv>>

\* part_001, lines 218-238: the documents with an ETA sorted by it, ascending,
\* then those without.
GetItemsByEta(category) ==
  LET found == Found(store, category)
      withEta == {i \in found : ~IsNull(store[i].estimatedDaysLeft)}
      noEta == found \ withEta
  IN  /\ res' = Listing("GET /items part_001", category,
                        SortByEta(store, withEta) \o InOrder(noEta))
      /\ UNCHANGED <<store, nextId, clock, req, lineEnv>>

(***************************************************************************)
(* Notifications.                                                          *)
(***************************************************************************)
\* Mutation: an ETA of exactly 0 is not yet red.
colorByEta_ZeroIsOrange(eta) ==
  IF IsNull(eta) THEN "blue"
  ELSE IF RatLess(eta, RatInt(0)) THEN "red"
  ELSE IF RatLeq(eta, RatInt(EtaHorizon)) THEN "orange"
  ELSE "blue"

colorByEta(eta) ==
  IF IsNull(eta) THEN "blue"
  ELSE IF RatLeq(eta, RatInt(0)) THEN "red"
  ELSE IF RatLeq(eta, RatInt(EtaHorizon)) THEN "orange"
  ELSE "blue"

\* Number(x).toFixed(1): x to the nearest tenth, as <<sign, units, tenth>>
\* (halves round away from zero on the exact value; Number(null) is 0).
ToFixed1(x) ==
  IF IsNull(x) THEN <<"", 0, 0>>
  ELSE LET tenths == (20 * Abs(x[1]) + x[2]) \div (2 * x[2])
       IN  <<IF x[1] < 0 THEN "-" ELSE "", tenths \div 10, tenths % 10>>

\* Mutation: the filter compares without the null check (null <= 3 holds in
\* JavaScript).
Targets_NullSelected(items, category) ==
  {i \in DOMAIN items :
     /\ IsNull(items[i].estimatedDaysLeft)
          \/ RatLeq(items[i].estimatedDaysLeft, RatInt(EtaHorizon))
     /\ (category # Missing /\ category # Empty => items[i].category = category)}

\* Lines 94-100: the items the on-demand notification selects.
Targets(items, category) ==
  {i \in DOMAIN items :
     /\ ~IsNull(items[i].estimatedDaysLeft)
     /\ RatLeq(items[i].estimatedDaysLeft, RatInt(EtaHorizon))
     /\ (category # Missing /\ category # Empty => items[i].category = category)}

\* Lines 107-112: one line per selected item.
LineOf(i) ==
  LET color == colorByEta(i.estimatedDaysLeft)
  IN  [emoji |-> IF color = "red" THEN "urgent"
                 ELSE IF color = "orange" THEN "warning" ELSE "ok",
       name |-> i.name,
       category |-> i.category,
       eta |-> ToFixed1(i.estimatedDaysLeft)]

\* Mutation: the empty selection is pushed too (the early return is missing).
sendLineNotification_AlwaysPush(items, category) ==
  LET targets == Targets(items, category)
  IN  IF ~lineEnv
      THEN [lines |-> <<>>, pushes |-> 0]
      ELSE [lines |-> [i \in targets |-> LineOf(items[i])], pushes |-> 1]

\* sendLineNotification: the lines of the message pushed, and the push calls made.
sendLineNotification(items, category) ==
  LET targets == Targets(items, category)
  IN  IF ~lineEnv \/ targets = {}
      THEN [lines |-> <<>>, pushes |-> 0]
      ELSE [lines |-> [i \in targets |-> LineOf(items[i])], pushes |-> 1]

\* Mutation: a failed push is not caught; the handler's catch answers 500.
PostNotify_FailureSurfaces(category) ==
  LET sent == sendLineNotification(store, category)
  IN  /\ \E ok \in BOOLEAN :
           /\ sent.pushes = 0 => ~ok
           /\ res' = Outcome("POST /notify", 0, <<category>>,
                             IF sent.pushes = 1 /\ ~ok THEN 500 ELSE 200,
                             sent.lines, sent.pushes, ok)
      /\ UNCHANGED <<store, nextId, clock, req, lineEnv>>

\* POST /notify.  The push may fail: sendLineNotification catches the error
\* and logs it, and the handler answers {ok: true} all the same.
PostNotify(category) ==
  LET sent == sendLineNotification(store, category)
  IN  /\ \E ok \in BOOLEAN :
           /\ sent.pushes = 0 => ~ok
           /\ res' = Outcome("POST /notify", 0, <<category>>, 200,
                             sent.lines, sent.pushes, ok)
      /\ UNCHANGED <<store, nextId, clock, req, lineEnv>>

\* Mutation: the scheduled job names the items with quantity <= 1.
CronJob_LowQuantity ==
  /\ \E ok \in BOOLEAN :
       res' = Outcome("cron part_000", 0, <<>>, 0,
                      [i \in {j \in DOMAIN store : store[j].quantity <= 1} |->
                         [emoji |-> "warning", name |-> store[i].name,
                          category |-> store[i].category, eta |-> <<>>]],
                      1, ok)
  /\ UNCHANGED <<store, nextId, clock, req, lineEnv>>

\* part_000, cron.schedule("0 17 * * *"): sendLine of a fixed text, which
\* names no item; sendLine catches and logs a failure of the push.
CronJob ==
  /\ \E ok \in BOOLEAN : res' = Outcome("cron part_000", 0, <<>>, 0, <<>>, 1, ok)
  /\ UNCHANGED <<store, nextId, clock, req, lineEnv>>

\* part_001, cron.schedule("0 17 * * *"): a console.log only.
CronLog ==
  /\ res' = Outcome("cron part_001", 0, <<>>, 0, <<>>, 0, FALSE)
  /\ UNCHANGED <<store, nextId, clock, req, lineEnv>>

(***************************************************************************)
(* Specifications.                                                         *)
(***************************************************************************)
PaddedSoap == <<" ", "s", "o", "a", "p", " ">>
PaddedDaily == <<"d", "a", "i", "l", "y", " ">>

\* The server with one document, within one instant of the clock: requests
\* may overlap, a quantity change being suspended on its save while other
\* handlers run.
Next ==
  \/ Delivered /\ \E n \in {Milk, Missing}, q \in {Num(-1), Num(4), Absent}, c \in {Food} :
       nextId = 1 /\ PostItems(n, q, c)
  \/ Delivered /\ \E n \in {PaddedSoap, Missing}, c \in {Missing} : PutItem(1, n, c)
  \/ Delivered /\ DeleteItem(1)
  \/ Delivered /\ \E r \in Reqs, c \in ChangeInputs, t \in {Absent, Num(2 * msPerDay)} :
       PutQuantityRead(r, 1, c, t)
  \/ Delivered /\ \E r \in Reqs : PutQuantitySave(r)
  \/ Delivered /\ PostNotify(Missing)
  \/ Delivered /\ CronJob
  \/ Delivered /\ CronLog
  \/ Deliver

Spec == Init /\ [][Next]_vars

\* One document, requests handled one after the other: no handler starts
\* while a quantity change is suspended on its save.
NextSeq ==
  \/ Delivered /\ NoneInFlight /\ Tick
  \/ Delivered /\ NoneInFlight /\
       \E n \in {Milk, Missing}, q \in {Num(-1), Num(4), Num(10), Absent}, c \in {Food} :
         nextId = 1 /\ PostItems(n, q, c)
  \/ Delivered /\ NoneInFlight /\
       \E n \in {PaddedSoap, Missing}, c \in {Missing} : PutItem(1, n, c)
  \/ Delivered /\ NoneInFlight /\ DeleteItem(1)
  \/ Delivered /\ NoneInFlight /\
       \E r \in Reqs, c \in ChangeInputs, t \in TimestampInputs : PutQuantityRead(r, 1, c, t)
  \/ Delivered /\ \E r \in Reqs : PutQuantitySave(r)
  \/ Delivered /\ NoneInFlight /\ PostNotify(Missing)
  \/ Delivered /\ NoneInFlight /\ CronJob
  \/ Delivered /\ NoneInFlight /\ CronLog
  \/ Deliver

InitSeq == Init /\ lineEnv = TRUE

SpecSeq == InitSeq /\ [][NextSeq]_vars

\* Several documents, requests handled one after the other within one
\* instant of the clock, every kind of request body.
NextAll ==
  \/ Delivered /\ NoneInFlight /\
       \E b \in PostBodies : PostItems(b[1], b[2], b[3])
  \/ Delivered /\ NoneInFlight /\
       \E i \in Ids, n \in {Missing}, c \in {PaddedDaily, Missing} : PutItem(i, n, c)
  \/ Delivered /\ NoneInFlight /\ \E i \in Ids : DeleteItem(i)
  \/ Delivered /\ NoneInFlight /\
       \E r \in Reqs, i \in Ids, c \in {Num(-2), Num(-1), Num(5), NotNum, Absent},
          t \in {Absent} :
         PutQuantityRead(r, i, c, t)
  \/ Delivered /\ \E r \in Reqs : PutQuantitySave(r)
  \/ Delivered /\ NoneInFlight /\ \E c \in {Food, Missing} : GetItems(c)
  \/ Delivered /\ NoneInFlight /\ \E c \in {Food, Missing} : GetItemsByEta(c)
  \/ Delivered /\ NoneInFlight /\ \E c \in CategoryInputs : PostNotify(c)
  \/ Delivered /\ NoneInFlight /\ CronJob
  \/ Delivered /\ NoneInFlight /\ CronLog
  \/ Deliver

SpecAll == Init /\ [][NextAll]_vars

\* Several documents while time passes, requests handled one after the
\* other: names and categories are edited, documents deleted.
NextEdit ==
  \/ Delivered /\ NoneInFlight /\ Tick
  \/ Delivered /\ NoneInFlight /\ \E n \in {Milk}, q \in {Num(4)}, c \in {Food} :
       PostItems(n, q, c)
  \/ Delivered /\ NoneInFlight /\
       \E i \in Ids, n \in {PaddedSoap, Missing}, c \in {PaddedDaily, Missing} :
         PutItem(i, n, c)
  \/ Delivered /\ NoneInFlight /\ \E i \in Ids : DeleteItem(i)
  \/ Delivered /\ NoneInFlight /\
       \E r \in Reqs, i \in Ids, c \in {Num(-1)}, t \in {Absent} :
         PutQuantityRead(r, i, c, t)
  \/ Delivered /\ \E r \in Reqs : PutQuantitySave(r)
  \/ Delivered /\ NoneInFlight /\ PostNotify(Missing)
  \/ Delivered /\ NoneInFlight /\ CronJob
  \/ Delivered /\ NoneInFlight /\ CronLog
  \/ Deliver

SpecEdit == InitSeq /\ [][NextEdit]_vars

\* sendLineNotification as a function of the items it is given: the
\* collection holds MaxItems documents with any estimatedDaysLeft a document
\* can hold (the schema puts no bound on it), and notifications are asked for.
EtaInputs == {Null, <<-1, 1>>, <<0, 1>>, <<12, 5>>, <<3, 1>>, <<7, 2>>}

Documents ==
  {[NewItem(Milk, c, 2, 0) EXCEPT
      !.estimatedDaysLeft = e,
      !.consumptionRate = IF IsNull(e) THEN RatInt(0) ELSE RatInt(1)] :
     c \in {Food, Daily}, e \in EtaInputs}

InitBands ==
  /\ store \in [Ids -> Documents]
  /\ nextId = MaxItems + 1
  /\ clock = 0
  /\ req = [r \in Reqs |-> IdleReq]
  /\ lineEnv \in BOOLEAN
  /\ res = NoResponse

NextBands ==
  \/ Delivered /\ \E c \in CategoryInputs : PostNotify(c)
  \/ Deliver

SpecBands == InitBands /\ [][NextBands]_vars

(***************************************************************************)
(* Vocabulary of the properties.                                           *)
(***************************************************************************)
Max0(n) == IF n > 0 THEN n ELSE 0

\* Request r's save step, on a document that still exists.
SaveOk(r) ==
  /\ req[r].pc = "save"
  /\ req'[r].pc = "idle"
  /\ req[r].id \in DOMAIN store

Decreases(h) == {k \in 1..Len(h) : h[k].change < 0}

QuantityOp == "PUT /items/:id/quantity"

(***************************************************************************)
(* C1.  Every stored item has quantity >= 0: a quantity change sets        *)
(* quantity to max(oldQuantity + change, 0), and create stores             *)
(* max(quantity, 0).                                                       *)
(***************************************************************************)
C1_QuantityNeverNegative ==
  [][/\ \A i \in DOMAIN store' : store'[i].quantity >= 0
     /\ \A r \in Reqs : SaveOk(r) =>
          store'[req[r].id].quantity = Max0(store[req[r].id].quantity + req[r].change)
     /\ \A i \in DOMAIN store' \ DOMAIN store :
          store'[i].quantity = Max0(NumberOf(res'.request[2]))]_vars

\* A decrease of 1 applied to an item created with a negative quantity:
\* both clamps have acted.
C1_Witness ==
  \E i \in DOMAIN store :
    /\ store[i].quantity = 0
    /\ Len(store[i].history) = 1
    /\ store[i].history[1].change = -1

(***************************************************************************)
(* C2.  On a decrease at time now, the instant rate is                     *)
(* |change| / max(1, days from prev to now), prev being the timestamp of   *)
(* the last history entry that existed before the event, or the item's     *)
(* lastUpdated before the event when there was none; the stored rate is    *)
(* that instant rate smoothed, and the stored ETA the new quantity over    *)
(* it (quantity 10, no history, -2 two days after lastUpdated: rate 1,     *)
(* ETA 8).                                                                 *)
(***************************************************************************)
ClaimedPrev(read) ==
  IF Len(read.history) > 0 THEN Last(read.history).timestamp ELSE read.lastUpdated

ClaimedInstantRate(read, change, now) ==
  RatDiv(RatInt(Abs(change)),
         RatMax(Rat(now - ClaimedPrev(read), msPerDay), RatInt(1)))

ClaimedRate(read, change, now) ==
  IF read.consumptionRate = RatInt(0)
  THEN ClaimedInstantRate(read, change, now)
  ELSE RatAdd(RatHalf(read.consumptionRate), RatHalf(ClaimedInstantRate(read, change, now)))

C2_RateFromPreviousUpdate ==
  [][\A r \in Reqs : SaveOk(r) /\ req[r].change < 0 =>
       LET rate == ClaimedRate(req[r].read, req[r].change, req[r].now)
       IN  /\ store'[req[r].id].consumptionRate = rate
           /\ store'[req[r].id].estimatedDaysLeft =
                RatDiv(RatInt(store'[req[r].id].quantity), rate)]_vars

(***************************************************************************)
(* C3.  Every successful quantity change makes the item's history exactly  *)
(* one entry longer, the entry {change, now} being appended at the end and *)
(* the earlier entries staying as they were; no other request (a metadata  *)
(* edit among them) touches the history.                                   *)
(***************************************************************************)
C3_HistoryAppendOnly ==
  [][\A i \in DOMAIN store \cap DOMAIN store' :
       IF \E r \in Reqs : SaveOk(r) /\ req[r].id = i
       THEN \E r \in Reqs :
              /\ SaveOk(r) /\ req[r].id = i
              /\ store'[i].history =
                   Append(store[i].history,
                          [change |-> req[r].change, timestamp |-> req[r].now])
       ELSE store'[i].history = store[i].history]_vars

\* Two overlapping quantity changes have both been saved, and the name has
\* been edited.
C3_Witness ==
  \E i \in DOMAIN store :
    /\ Len(store[i].history) = 2
    /\ store[i].name = Soap
    /\ store[i].quantity # Max0(Max0(4 + store[i].history[1].change)
                                  + store[i].history[2].change)
    /\ store[i].quantity # Max0(Max0(store[i].history[1].change)
                                  + store[i].history[2].change)

(***************************************************************************)
(* C4.  Two quantity changes of one item can both read the stored item     *)
(* before either saves; each save then writes the quantity it computed     *)
(* from what it read, so that the stored quantity ends up reflecting only  *)
(* one of the two changes.                                                 *)
(***************************************************************************)
C4_SaveWritesFromStaleRead ==
  [][\A r \in Reqs :
       SaveOk(r) /\ req[r].item.quantity # req[r].read.quantity =>
         store'[req[r].id].quantity = Max0(req[r].read.quantity + req[r].change)]_vars

\* Both requests read quantity 4; -1 and -2 are both in the history, and the
\* stored quantity is 4 - 2 or 4 - 1, not 1.
C4_Witness ==
  /\ NoneInFlight
  /\ \E i \in DOMAIN store :
       /\ Len(store[i].history) = 2
       /\ {store[i].history[1].change, store[i].history[2].change} = {-1, -2}
       /\ store[i].quantity \in {2, 3}

(***************************************************************************)
(* C5.  An item's consumptionRate is 0 as long as no decrease has been     *)
(* applied to it, and whenever consumptionRate is 0 its estimatedDaysLeft  *)
(* is null.                                                                *)
(***************************************************************************)
C5_RateZeroUntilDecrease ==
  \A i \in DOMAIN store :
    /\ Decreases(store[i].history) = {} => store[i].consumptionRate = RatInt(0)
    /\ store[i].consumptionRate = RatInt(0) => IsNull(store[i].estimatedDaysLeft)

\* An item that was restocked, had a change of 0 and was renamed, and never
\* consumed.
C5_Witness ==
  \E i \in DOMAIN store :
    /\ Len(store[i].history) = 2
    /\ {store[i].history[1].change, store[i].history[2].change} = {0, 5}
    /\ store[i].name = Soap
    /\ store[i].consumptionRate = RatInt(0)

(***************************************************************************)
(* C6.  A quantity change with change >= 0 (0 included) never changes      *)
(* consumptionRate; it sets estimatedDaysLeft to the new quantity over     *)
(* consumptionRate when consumptionRate > 0, and to null otherwise.        *)
(***************************************************************************)
C6_IncreaseKeepsRate ==
  [][\A r \in Reqs : SaveOk(r) /\ req[r].change >= 0 =>
       LET old == store[req[r].id]
           new == store'[req[r].id]
       IN  /\ new.consumptionRate = old.consumptionRate
           /\ new.estimatedDaysLeft =
                IF RatLess(RatInt(0), old.consumptionRate)
                THEN RatDiv(RatInt(new.quantity), old.consumptionRate)
                ELSE Null]_vars

\* A decrease followed by a change of exactly 0.
C6_Witness ==
  \E i \in DOMAIN store :
    /\ Len(store[i].history) = 2
    /\ store[i].history[1].change < 0
    /\ store[i].history[2].change = 0
    /\ ~IsNull(store[i].estimatedDaysLeft)

(***************************************************************************)
(* C7.  On a decrease the new consumptionRate is the instant rate itself   *)
(* when the previous consumptionRate is 0, and half the previous rate plus *)
(* half the instant rate otherwise; the stored estimatedDaysLeft is the    *)
(* already decremented quantity over the new rate.  (The instant rate is   *)
(* the one the estimator computed: |change| over its daysElapsed.)         *)
(***************************************************************************)
C7_Smoothing ==
  [][\A r \in Reqs : SaveOk(r) /\ req[r].change < 0 =>
       LET old == store[req[r].id]
           new == store'[req[r].id]
           instant == RatDiv(RatInt(-req[r].change),
                             DaysElapsedOf(req[r].item, req[r].now))
       IN  /\ new.consumptionRate =
                IF old.consumptionRate = RatInt(0) THEN instant
                ELSE RatMul(<<1, 2>>, RatAdd(old.consumptionRate, instant))
           /\ new.quantity = Max0(old.quantity + req[r].change)
           /\ new.estimatedDaysLeft = RatDiv(RatInt(new.quantity), new.consumptionRate)]_vars

\* A decrease of 2 seeded the rate and a decrease of 1 was blended into it.
C7_Witness ==
  \E i \in DOMAIN store :
    /\ Len(store[i].history) = 2
    /\ store[i].history[1].change = -2
    /\ store[i].history[2].change = -1
    /\ store[i].consumptionRate = <<3, 2>>

(***************************************************************************)
(* C8.  The daysElapsed of a decrease's rate calculation is always >= 1:   *)
(* a decrease less than a day after the previous decrease uses 1, and so   *)
(* does a decrease whose timestamp is earlier than the last recorded one   *)
(* (a negative elapsed time is clamped to 0, then raised to 1).            *)
(***************************************************************************)
C8_DaysElapsedAtLeastOne ==
  /\ \A p \in Times, c \in Times :
       /\ RatLeq(RatInt(0), calcDaysBetween(p, c))
       /\ c < p => calcDaysBetween(p, c) = RatInt(0)
  /\ \A r \in InFlight :
       req[r].change < 0 =>
         LET read == req[r].read
             days == DaysElapsedOf(req[r].item, req[r].now)
             one == SmoothedRate(read.consumptionRate, RatInt(-req[r].change))
         IN  /\ RatLeq(RatInt(1), days)
             /\ Len(read.history) > 0 /\ req[r].now < Last(read.history).timestamp + msPerDay
                  => days = RatInt(1) /\ req[r].item.consumptionRate = one

\* A decrease is being handled whose timestamp is earlier than that of the
\* decrease before it.
C8_Witness ==
  \E r \in InFlight :
    /\ req[r].change < 0
    /\ Len(req[r].read.history) > 0
    /\ Last(req[r].read.history).change < 0
    /\ req[r].now < Last(req[r].read.history).timestamp

(***************************************************************************)
(* C9.  POST /notify selects an item if and only if its estimatedDaysLeft  *)
(* is non-null and <= 3 and, when a category is supplied, its category     *)
(* equals it; an item whose estimatedDaysLeft is null is never selected,   *)
(* whatever its quantity.                                                  *)
(***************************************************************************)
C9_NotifySelection ==
  res.op = "POST /notify" /\ lineEnv =>
    \A i \in DOMAIN store :
      i \in DOMAIN res.lines <=>
        /\ ~IsNull(store[i].estimatedDaysLeft)
        /\ RatLeq(store[i].estimatedDaysLeft, <<3, 1>>)
        /\ res.request[1] # Missing => store[i].category = res.request[1]

\* A notification for one category: an item of that category with quantity
\* 0 and no ETA is left out, another with an ETA within 3 days is named.
C9_Witness ==
  /\ res.op = "POST /notify"
  /\ res.request[1] = Food
  /\ \E i \in DOMAIN store, j \in DOMAIN store :
       /\ store[i].quantity = 0 /\ IsNull(store[i].estimatedDaysLeft)
       /\ store[i].category = Food
       /\ i \notin DOMAIN res.lines
       /\ j \in DOMAIN res.lines

Selected(category) ==
  {i \in DOMAIN store :
     /\ store[i].estimatedDaysLeft # Null
     /\ RatLeq(store[i].estimatedDaysLeft, <<3, 1>>)
     /\ category # Missing => store[i].category = category}

C11_PushOnlyWhenSelected ==
  res.op = "POST /notify" =>
    /\ res.status = 200
    /\ Selected(res.request[1]) = {} => res.pushes = 0
    /\ Selected(res.request[1]) # {} /\ lineEnv => res.pushes = 1
    /\ ~lineEnv => res.pushes = 0

\* A notification for a category none of whose items is due, while an item
\* of another category is: nothing is pushed and the answer is 200.
C11_Witness ==
  /\ res.op = "POST /notify"
  /\ lineEnv
  /\ res.request[1] = Daily
  /\ Selected(Missing) # {}
  /\ Selected(Daily) = {}
  /\ res.pushes = 0
  /\ res.status = 200

(***************************************************************************)
(* C12.  A failure of the push call is caught and logged only: the POST    *)
(* /notify that caused it still answers 200, the push is attempted at most *)
(* once for a notification (the scheduled one of part_000 included), and   *)
(* no notification, delivered or not, changes an item of the store.        *)
(***************************************************************************)
Notifications == {"POST /notify", "cron part_000", "cron part_001"}

C12_DeliveryErrorIsSwallowed ==
  [][res.op = "none" /\ res'.op \in Notifications =>
       /\ res'.op = "POST /notify" => res'.status = 200
       /\ res'.pushes <= 1
       /\ res'.pushed => res'.pushes = 1
       /\ store' = store]_vars

\* A notification that named an item, and whose one push failed, has been
\* answered with 200.
C12_Witness ==
  /\ res.op = "POST /notify"
  /\ DOMAIN res.lines # {}
  /\ res.pushes = 1
  /\ ~res.pushed
  /\ res.status = 200

(***************************************************************************)
(* C13.  PUT /items/:id/quantity answers 400 when change is missing or not *)
(* a number, and 404 when no item has the id; with either answer no item   *)
(* of the store is changed (quantity, rate, ETA, lastUpdated and history   *)
(* stay as they were).                                                     *)
(***************************************************************************)
BadChange(c) == c.t = "undefined" \/ c.t = "string"

C13_QuantityErrorsChangeNothing ==
  [][/\ \A c \in ChangeInputs, i \in Ids :
          /\ BadChange(c) => QuantityStatus(c, i) = 400
          /\ ~BadChange(c) /\ i \notin DOMAIN store => QuantityStatus(c, i) = 404
          /\ ~BadChange(c) /\ i \in DOMAIN store => QuantityStatus(c, i) = 0
     /\ res.op = "none" /\ res'.op = QuantityOp /\ res'.status \in {400, 404} =>
          /\ res'.status = 400 <=> BadChange(res'.request[1])
          /\ res'.status = 404 => res'.id \notin DOMAIN store
          /\ store' = store
          /\ req' = req
     /\ \A r \in Reqs : req[r].pc = "idle" /\ req'[r].pc = "save" =>
          /\ req'[r].id \in DOMAIN store
          /\ store' = store]_vars

\* A change that is not a number was sent for an item that exists and has a
\* history, and answered with 400.
C13_Witness ==
  /\ res.op = QuantityOp
  /\ res.status = 400
  /\ res.request[1] = NotNum
  /\ res.id \in DOMAIN store
  /\ store[res.id].history # <<>>

(***************************************************************************)
(* C14.  POST /items with name, quantity or category missing answers 400   *)
(* and creates no document; a successful POST /items creates exactly one   *)
(* item, with consumptionRate 0, estimatedDaysLeft null and an empty       *)
(* history, and leaves the other items as they were.                       *)
(***************************************************************************)
C14_CreateOneOrNone ==
  [][res.op = "none" /\ res'.op = "POST /items" =>
       LET body == res'.request
       IN  /\ body[1] = Missing \/ body[2].t = "undefined" \/ body[3] = Missing
                => res'.status = 400
           /\ res'.status # 201 => store' = store
           /\ res'.status = 201 =>
                /\ res'.id \notin DOMAIN store
                /\ DOMAIN store' = DOMAIN store \cup {res'.id}
                /\ \A j \in DOMAIN store : store'[j] = store[j]
                /\ store'[res'.id].consumptionRate = <<0, 1>>
                /\ store'[res'.id].estimatedDaysLeft = <<>>
                /\ store'[res'.id].history = <<>>]_vars

\* A second item has just been created next to one that has been consumed
\* from.
C14_Witness ==
  /\ res.op = "POST /items"
  /\ res.status = 201
  /\ \E j \in DOMAIN store :
       /\ j # res.id
       /\ store[j].history # <<>>
       /\ store[j].consumptionRate # <<0, 1>>

(***************************************************************************)
(* C15.  PUT /items/:id on an existing item changes the name and the       *)
(* category it is given and nothing else but lastUpdated, which it always  *)
(* sets to the current time: quantity, consumptionRate, estimatedDaysLeft  *)
(* and history stay, and so do the other items.  On an absent id it        *)
(* answers 404 and changes nothing.  DELETE /items/:id on an absent id     *)
(* answers 404 and changes nothing; otherwise it removes that item and no  *)
(* other.                                                                  *)
(***************************************************************************)
Supplied(field, old) ==
  IF field = Missing THEN old
  ELSE IF field = PaddedSoap THEN Soap
  ELSE IF field = PaddedDaily THEN Daily
  ELSE field

C15_EditAndDeleteFrame ==
  [][/\ res.op = "none" /\ res'.op = "PUT /items/:id" =>
          IF res'.id \in DOMAIN store
          THEN LET old == store[res'.id]
                   new == store'[res'.id]
               IN  /\ res'.status = 200
                   /\ DOMAIN store' = DOMAIN store
                   /\ \A j \in DOMAIN store \ {res'.id} : store'[j] = store[j]
                   /\ new.name = Supplied(res'.request[1], old.name)
                   /\ new.category = Supplied(res'.request[2], old.category)
                   /\ new.lastUpdated = clock
                   /\ new.quantity = old.quantity
                   /\ new.consumptionRate = old.consumptionRate
                   /\ new.estimatedDaysLeft = old.estimatedDaysLeft
                   /\ new.history = old.history
          ELSE res'.status = 404 /\ store' = store
     /\ res.op = "none" /\ res'.op = "DELETE /items/:id" =>
          IF res'.id \in DOMAIN store
          THEN /\ res'.status = 200
               /\ DOMAIN store' = DOMAIN store \ {res'.id}
               /\ \A j \in DOMAIN store' : store'[j] = store[j]
          ELSE res'.status = 404 /\ store' = store]_vars

\* An edit that supplied nothing, a day or more after the item's one
\* decrease: only lastUpdated has moved, and the other item is as created.
C15_Witness ==
  /\ res.op = "PUT /items/:id"
  /\ res.status = 200
  /\ res.request = <<Missing, Missing>>
  /\ res.id \in DOMAIN store
  /\ store[res.id].history # <<>>
  /\ store[res.id].lastUpdated > Last(store[res.id].history).timestamp
  /\ store[res.id].name = Milk
  /\ \E j \in DOMAIN store : j # res.id /\ store[j].history = <<>>

(***************************************************************************)
(* C16.  The severity marker of a line of the on-demand notification       *)
(* follows the item's ETA: urgent for ETA <= 0, warning for 0 < ETA <= 3,  *)
(* ok for ETA > 3.  An item with estimatedDaysLeft 2.4 is named with the   *)
(* warning marker, an item with estimatedDaysLeft -1 with the urgent one.  *)
(***************************************************************************)
Band(e) ==
  IF e[1] <= 0 THEN "urgent"
  ELSE IF e[1] <= 3 * e[2] THEN "warning"
  ELSE "ok"

C16_SeverityBands ==
  /\ \A d \in Documents :
       d.estimatedDaysLeft # <<>> => LineOf(d).emoji = Band(d.estimatedDaysLeft)
  /\ res.op = "POST /notify" =>
       /\ \A i \in DOMAIN res.lines :
            res.lines[i].emoji = Band(store[i].estimatedDaysLeft)
       /\ lineEnv /\ res.request[1] = Missing =>
            \A i \in DOMAIN store :
              /\ store[i].estimatedDaysLeft = <<12, 5>> =>
                   /\ i \in DOMAIN res.lines
                   /\ res.lines[i].emoji = "warning"
                   /\ res.lines[i].eta = <<"", 2, 4>>
              /\ store[i].estimatedDaysLeft = <<-1, 1>> =>
                   i \in DOMAIN res.lines /\ res.lines[i].emoji = "urgent"

\* One notification names an item with 2.4 days left and an overdue one.
C16_Witness ==
  /\ res.op = "POST /notify"
  /\ \E i \in DOMAIN res.lines, j \in DOMAIN res.lines :
       /\ store[i].estimatedDaysLeft = <<12, 5>> /\ res.lines[i].emoji = "warning"
       /\ store[j].estimatedDaysLeft = <<-1, 1>> /\ res.lines[j].emoji = "urgent"

(***************************************************************************)
(* C17.  As claimed: GET /items returns the items (of the category asked   *)
(* for, when one is) ordered by ETA ascending, every item whose            *)
(* estimatedDaysLeft is null coming after all the items that have an ETA.  *)
(***************************************************************************)
Listings == {"GET /items", "GET /items part_001"}

Asked(category) ==
  {i \in DOMAIN store : category # Missing => store[i].category = category}

\* The sequence names each item asked for once, and no other.
ListsExactly(ids, S) ==
  /\ Len(ids) = Cardinality(S)
  /\ {ids[k] : k \in 1..Len(ids)} = S

EtaAscendingNullLast(ids) ==
  \A k \in 1..Len(ids), l \in 1..Len(ids) :
    k < l =>
      LET a == store[ids[k]].estimatedDaysLeft
          b == store[ids[l]].estimatedDaysLeft
      IN  /\ a = <<>> => b = <<>>
          /\ a # <<>> /\ b # <<>> => a[1] * b[2] <= b[1] * a[2]

QuantityAscending(ids) ==
  \A k \in 1..Len(ids), l \in 1..Len(ids) :
    k < l => store[ids[k]].quantity <= store[ids[l]].quantity

C17_ListedByEta ==
  res.op \in Listings =>
    /\ ListsExactly(res.items, Asked(res.request[1]))
    /\ EtaAscendingNullLast(res.items)

(***************************************************************************)
(* C17, amended.  GET /items of server.js returns the items (of the        *)
(* category asked for, when one is) ordered by quantity ascending,         *)
(* whatever their estimatedDaysLeft; only the earlier handler of part_001  *)
(* orders them by ETA ascending with the items without ETA last.           *)
(***************************************************************************)
C17_ListedByQuantity ==
  /\ res.op = "GET /items" =>
       /\ ListsExactly(res.items, Asked(res.request[1]))
       /\ QuantityAscending(res.items)
  /\ res.op = "GET /items part_001" =>
       /\ ListsExactly(res.items, Asked(res.request[1]))
       /\ EtaAscendingNullLast(res.items)

\* server.js has listed an item without ETA before an item with one, the
\* second item having been created before the first and holding more.
C17_Witness ==
  /\ res.op = "GET /items"
  /\ Len(res.items) = 2
  /\ res.items[1] > res.items[2]
  /\ store[res.items[1]].estimatedDaysLeft = <<>>
  /\ store[res.items[2]].estimatedDaysLeft # <<>>
  /\ store[res.items[1]].quantity < store[res.items[2]].quantity

(***************************************************************************)
(* C18.  When requests do not overlap, in every state an item with         *)
(* consumptionRate > 0 has a non-null estimatedDaysLeft equal to           *)
(* quantity / consumptionRate; estimatedDaysLeft is null exactly when      *)
(* consumptionRate is 0, and it is never negative.                         *)
(***************************************************************************)
C18_EtaIsQuantityOverRate ==
  \A i \in DOMAIN store :
    LET q == store[i].quantity
        rate == store[i].consumptionRate
        eta == store[i].estimatedDaysLeft
    IN  /\ rate[1] >= 0 /\ rate[2] > 0
        /\ rate[1] > 0 =>
             /\ eta # <<>>
             /\ eta[2] > 0
             /\ eta[1] * rate[1] = q * rate[2] * eta[2]
             /\ eta[1] >= 0
        /\ eta = <<>> <=> rate[1] = 0

\* A renamed item that was consumed from and then restocked: the ETA is the
\* restocked quantity over the rate.
C18_Witness ==
  \E i \in DOMAIN store :
    /\ Len(store[i].history) = 2
    /\ store[i].history[1].change = -2
    /\ store[i].history[2].change = 5
    /\ store[i].name = Soap
    /\ store[i].quantity = 13
    /\ store[i].estimatedDaysLeft = <<13, 2>>

(***************************************************************************)
(* C19.  The quantity, consumptionRate and estimatedDaysLeft that PUT      *)
(* /items/:id/quantity stores do not depend on the timestamps involved:    *)
(* the same change applied to the same item with any other lastUpdated,    *)
(* any other timestamps in its history and any other time of the request   *)
(* stores the same three values (so two runs of the same changes with      *)
(* different timestamps end alike).                                        *)
(***************************************************************************)
Retimed(read, lastUpdated, timestamps) ==
  [read EXCEPT
     !.lastUpdated = lastUpdated,
     !.history = [k \in 1..Len(read.history) |->
                    [change |-> read.history[k].change, timestamp |-> timestamps[k]]]]

RECURSIVE Replay(_, _)
Replay(q, h) ==
  IF h = <<>> THEN q ELSE Replay(Max0(q + Head(h).change), Tail(h))

\* Quantities an item may have been created with.
Quantities == 0..20

\* In this step no request saves a change of item i that it computed from
\* an earlier state of the item's history.
NotOverlapped(i) ==
  \A r \in Reqs :
    SaveOk(r) /\ req[r].id = i => req[r].read.history = store[i].history

C20_QuantityReplaysHistory ==
  [][/\ \A i \in DOMAIN store' \ DOMAIN store :
          /\ store'[i].history = <<>>
          /\ store'[i].quantity = Max0(res'.request[2].v)
          /\ store'[i].quantity \in Quantities
     /\ \A i \in DOMAIN store \cap DOMAIN store' :
          NotOverlapped(i) =>
            \A q \in Quantities :
              store[i].quantity = Replay(q, store[i].history)
                => store'[i].quantity = Replay(q, store'[i].history)]_vars

\* A restock of 5 and a decrease of 1 were both computed from quantity 4, and
\* the decrease was saved last: the quantity is 3, which is the replay of
\* <<5, -1>> from no creation quantity.
C20_Witness ==
  \E i \in DOMAIN store :
    /\ Len(store[i].history) = 2
    /\ store[i].history[1].change = 5
    /\ store[i].history[2].change = -1
    /\ store[i].quantity = 3
    /\ \A q \in Quantities : store[i].quantity # Replay(q, store[i].history)

====
